---- MODULE Spec2Model ----
(***************************************************************************)
(* Model of class Script (Assignment6/headers/script.h): a std::list of    *)
(* key frames, a list iterator `iter` naming the current frame, and the    *)
(* parallel counter `currFrameNum`.                                        *)
(*                                                                         *)
(* The list is the sequence of its Frame values.  An iterator is the       *)
(* 1-based position of the node it refers to; end(fs) = Len(fs) + 1 is the *)
(* sentinel node.  A std::list iterator stays on its node when other nodes *)
(* are inserted or erased, so its position shifts: afterInsert and         *)
(* afterErase.  std::list is a circular doubly linked list through the     *)
(* sentinel, so the out-of-range iterator steps the code can make          *)
(* (undefined behaviour) either wrap through end() or abort the program;   *)
(* both outcomes are kept.                                                 *)
(***************************************************************************)
EXTENDS Integers, Sequences, FiniteSets, TLC

\* ---------------------------------------------------------------- bounds
MaxFrames == 4          \* longest list explored
MaxInit   == 2          \* longest list handed to Script(list<Frame>)
SizeBits  == 16         \* model width of size_t (values stay far below it)
AlphaDen  == 2          \* alpha ranges over k / AlphaDen, k \in 0..AlphaDen
MaxOrdinal == 5         \* cap on currFrameNum (deletions let it run ahead)
MaxBelow  == 1          \* how far raw regressIter() may take it below zero
MaxPose   == 2          \* poses of the interpolation study range over 0..MaxPose

\* ------------------------------------------------------------ vocabulary
FrameVals == {"P", "Q"}             \* poses Frame(rootNode) can capture
Garbage   == "garbage"              \* what reading *frames.end() yields
Alphas    == 0..AlphaDen
NoShow    == <<"none">>

VARIABLES
  frames,        \* list<Frame> frames
  iter,          \* list<Frame>::iterator iter  (a position, or end)
  currFrameNum,  \* int currFrameNum
  shown,         \* what the last operation applied to the scene
  op,            \* name of the last operation
  arg,           \* input of the last operation (captured frame or alpha)
  ret,           \* value returned by the last canAnimate()
  ub,            \* undefined behaviour the last operation went through
  crashed,       \* the process was aborted by undefined behaviour
  file,          \* the script file on disk: present or not, and its text
  mark           \* cursor saved by the last insert or advance, and the run of
                 \* successful advances since the last goToBeginning

vars == <<frames, iter, currFrameNum, shown, op, arg, ret, ub, crashed, file, mark>>

NoArg  == <<"none">>

NoFile == [present |-> FALSE, text |-> <<>>]

\* an iterator into the list of another Script object (a copied-from one)
Foreign == 0

NL == "\\n"

NoMark == [kind |-> "none", iter |-> 0, num |-> 0, new |-> 0, frame |-> "none",
           seq |-> <<>>, run |-> 0 - 1]

\* ------------------------------------------------------- std::list model
size(fs) == Len(fs)

begin(fs) == 1

end(fs) == Len(fs) + 1

\* operator++ : from the last node to end(), from end() round to the first node
IterNext(fs, it) == IF it = end(fs) THEN begin(fs) ELSE it + 1

\* operator-- : from end() to the last node, from the first node round to end()
IterPrev(fs, it) == IF it = begin(fs) THEN end(fs) ELSE it - 1

\* operator* / operator-> : the sentinel holds no Frame
Deref(fs, it) == IF it = end(fs) THEN Garbage ELSE fs[it]

\* faulty insert: the new node is always linked in at the tail
insert_atTail(fs, at, f) == Append(fs, f)

\* frames.insert(at, f): the new node goes before the node `at` refers to
insert(fs, at, f) == SubSeq(fs, 1, at - 1) \o <<f>> \o SubSeq(fs, at, Len(fs))

\* where an iterator is once a node has been inserted before `at`
afterInsert(it, at) == IF it >= at THEN it + 1 ELSE it

push_back(fs, f) == insert(fs, end(fs), f)

\* faulty erase: unlinks the node and everything after it
erase_tail(fs, at) == SubSeq(fs, 1, at - 1)

\* frames.erase(at)
erase(fs, at) == SubSeq(fs, 1, at - 1) \o SubSeq(fs, at + 1, Len(fs))

\* where an iterator to another node is once the node `at` has been erased
afterErase(it, at) == IF it > at THEN it - 1 ELSE it

\* int -> size_t conversion and size_t subtraction, modulo 2^SizeBits
ToUnsigned(n) == n % (2 ^ SizeBits)

\* ------------------------------------------------------------- Script
\* faulty defined(): reports the empty list but leaves the cursor as it was
defined_noReset(fs, it, num) ==
  [ret |-> (size(fs) # 0 /\ it # end(fs)), iter |-> it, num |-> num]

\* bool defined(): result and the cursor it leaves behind
defined(fs, it, num) ==
  IF size(fs) = 0
  THEN [ret |-> FALSE, iter |-> begin(fs), num |-> 0]
  ELSE [ret |-> (it # end(fs)), iter |-> it, num |-> num]

\* currFrameNum < frames.size() - 2, compared as unsigned
canAnimateCmp(fs, num) == ToUnsigned(num) < ToUnsigned(size(fs) - 2)

canAnimate(fs, it, num) ==
  defined(fs, it, num).ret /\ canAnimateCmp(fs, num)

\* faulty bound: currFrameNum < frames.size()
canAdvanceCmp_offByOne(fs, num) == ToUnsigned(num) < ToUnsigned(size(fs))

\* currFrameNum < frames.size() - 1, compared as unsigned
canAdvanceCmp(fs, num) == ToUnsigned(num) < ToUnsigned(size(fs) - 1)

\* iter->showFrameInScene()
Show(fs, it) == <<"frame", Deref(fs, it)>>

ShowUB(fs, it) == IF it = end(fs) THEN {"deref_end"} ELSE {}

\* iter++ on end() and iter-- on begin() are outside the iterator's range
IncUB(fs, it) == IF it = end(fs) THEN {"inc_end"} ELSE {}

DecUB(fs, it) == IF it = begin(fs) THEN {"dec_begin"} ELSE {}

\* faulty advanceIter(): moves the iterator but forgets currFrameNum++
advanceIterStep_keepNum(fs, it, num) ==
  [iter |-> IterNext(fs, it), num |-> num, ub |-> IncUB(fs, it)]

\* effect of advanceIter() on the cursor
advanceIterStep(fs, it, num) ==
  [iter |-> IterNext(fs, it), num |-> num + 1, ub |-> IncUB(fs, it)]

\* faulty regressIter(): moves the iterator but forgets currFrameNum--
regressIterStep_keepNum(fs, it, num) ==
  [iter |-> IterPrev(fs, it), num |-> num, ub |-> DecUB(fs, it)]

\* effect of regressIter() on the cursor
regressIterStep(fs, it, num) ==
  [iter |-> IterPrev(fs, it), num |-> num - 1, ub |-> DecUB(fs, it)]

\* an operation that went through undefined behaviour may abort the process
MayCrash == crashed' \in (IF ub' = {} THEN {FALSE} ELSE BOOLEAN)

Init ==
  /\ \E n \in 0..MaxInit : frames \in [1..n -> FrameVals]
  /\ iter = begin(frames)
  /\ currFrameNum = 0
  /\ shown = NoShow
  /\ op = "Script"
  /\ arg = NoArg
  /\ ret = FALSE
  /\ ub = {}
  /\ crashed = FALSE
  /\ file = NoFile
  /\ mark = NoMark

getNumberOfKeyframes ==
  /\ ~crashed
  /\ op' = "getNumberOfKeyframes"
  /\ UNCHANGED file
  /\ arg' = NoArg
  /\ ret' = FALSE /\ shown' = NoShow /\ ub' = {} /\ mark' = NoMark
  /\ UNCHANGED <<frames, iter, currFrameNum, crashed>>

CanAnimate ==
  /\ ~crashed
  /\ LET d == defined(frames, iter, currFrameNum)
     IN  /\ iter' = d.iter
         /\ currFrameNum' = d.num
         /\ ret' = canAnimate(frames, iter, currFrameNum)
  /\ op' = "canAnimate"
  /\ UNCHANGED file
  /\ arg' = NoArg
  /\ shown' = NoShow /\ ub' = {} /\ mark' = NoMark
  /\ UNCHANGED <<frames, crashed>>

showCurrentFrameInScene ==
  /\ ~crashed
  /\ LET d == defined(frames, iter, currFrameNum)
     IN  /\ iter' = d.iter
         /\ currFrameNum' = d.num
         /\ shown' = IF d.ret THEN Show(frames, d.iter) ELSE NoShow
  /\ op' = "showCurrentFrameInScene"
  /\ UNCHANGED file
  /\ arg' = NoArg
  /\ ret' = FALSE /\ ub' = {} /\ mark' = NoMark
  /\ UNCHANGED <<frames, crashed>>

\* body of createNewFrameFromSceneAfterCurrentFrame for the captured frame f
createNewFrame(f) ==
  LET d == defined(frames, iter, currFrameNum)
  IN  IF d.ret
      THEN d.num < MaxOrdinal /\
           LET it1 == IterNext(frames, d.iter)             \* iter++
               fs  == insert(frames, it1, f)                \* frames.insert(iter, frame)
               it2 == IterPrev(fs, afterInsert(it1, it1))   \* iter--
           IN  /\ frames' = fs
               /\ iter' = it2
               /\ currFrameNum' = d.num + 1
               /\ shown' = Show(fs, it2)
               /\ ub' = ShowUB(fs, it2)
               /\ arg' = <<"frame", f>>
               /\ mark' = [kind |-> "ins", iter |-> d.iter, num |-> d.num,
                            new |-> IterNext(frames, d.iter),
                            frame |-> Deref(frames, d.iter),
                            seq |-> frames, run |-> 0 - 1]
      ELSE LET fs == push_back(frames, f)
           IN  /\ frames' = fs
               /\ iter' = begin(fs)
               /\ currFrameNum' = 0
               /\ shown' = Show(fs, begin(fs))
               /\ ub' = {}
               /\ arg' = <<"frame", f>>
               /\ mark' = NoMark

createNewFrameFromSceneAfterCurrentFrame ==
  /\ ~crashed
  /\ size(frames) < MaxFrames
  /\ \E f \in FrameVals : createNewFrame(f)
  /\ op' = "createNewFrameFromSceneAfterCurrentFrame"
  /\ UNCHANGED file
  /\ ret' = FALSE
  /\ MayCrash

\* faulty replace: never overwrites, always creates a new frame
replaceCurrentFrameFromScene_alwaysCreate ==
  /\ ~crashed
  /\ size(frames) < MaxFrames
  /\ \E f \in FrameVals : createNewFrame(f)
  /\ op' = "replaceCurrentFrameFromScene"
  /\ UNCHANGED file
  /\ ret' = FALSE
  /\ MayCrash

replaceCurrentFrameFromScene ==
  /\ ~crashed
  /\ LET d == defined(frames, iter, currFrameNum)
     IN  IF d.ret
         THEN \E f \in FrameVals :
                /\ frames' = [frames EXCEPT ![d.iter] = f]
                /\ iter' = d.iter
                /\ currFrameNum' = d.num
                /\ shown' = Show(frames', d.iter)
                /\ ub' = {}
                /\ arg' = <<"frame", f>>
                /\ mark' = NoMark
         ELSE /\ size(frames) < MaxFrames
              /\ \E f \in FrameVals : createNewFrame(f)
  /\ op' = "replaceCurrentFrameFromScene"
  /\ UNCHANGED file
  /\ ret' = FALSE
  /\ MayCrash

advanceCurrentFrame ==
  /\ ~crashed
  /\ LET d == defined(frames, iter, currFrameNum)
     IN  IF d.ret /\ canAdvanceCmp(frames, d.num)
         THEN LET a == advanceIterStep(frames, d.iter, d.num)
              IN  /\ iter' = a.iter
                  /\ currFrameNum' = a.num
                  /\ shown' = Show(frames, a.iter)
                  /\ ub' = a.ub \cup ShowUB(frames, a.iter)
                  /\ mark' = [kind |-> "adv", iter |-> d.iter, num |-> d.num,
                               new |-> 0, frame |-> Deref(frames, d.iter),
                               seq |-> frames,
                               run |-> IF mark.run >= 0 THEN mark.run + 1 ELSE 0 - 1]
         ELSE /\ iter' = d.iter
              /\ currFrameNum' = d.num
              /\ shown' = NoShow
              /\ ub' = {}
              /\ mark' = NoMark
  /\ op' = "advanceCurrentFrame"
  /\ UNCHANGED file
  /\ arg' = NoArg
  /\ ret' = FALSE
  /\ UNCHANGED frames
  /\ MayCrash

regressCurrentFrame ==
  /\ ~crashed
  /\ LET d == defined(frames, iter, currFrameNum)
     IN  IF d.ret /\ d.iter # begin(frames)
         THEN LET r == regressIterStep(frames, d.iter, d.num)
              IN  /\ iter' = r.iter
                  /\ currFrameNum' = r.num
                  /\ shown' = Show(frames, r.iter)
                  /\ ub' = r.ub \cup ShowUB(frames, r.iter)
         ELSE /\ iter' = d.iter
              /\ currFrameNum' = d.num
              /\ shown' = NoShow
              /\ ub' = {}
  /\ op' = "regressCurrentFrame"
  /\ UNCHANGED file
  /\ arg' = NoArg
  /\ ret' = FALSE
  /\ mark' = IF mark.kind = "ins" THEN [mark EXCEPT !.kind = "insreg", !.run = 0 - 1]
              ELSE IF mark.kind = "adv" THEN [mark EXCEPT !.kind = "advreg", !.run = 0 - 1]
              ELSE NoMark
  /\ UNCHANGED frames
  /\ MayCrash

\* faulty goToBeginning: resets the iterator but not currFrameNum
goToBeginning_keepNum ==
  /\ ~crashed
  /\ LET d == defined(frames, begin(frames), currFrameNum)
     IN  /\ iter' = d.iter
         /\ currFrameNum' = d.num
         /\ shown' = IF d.ret THEN Show(frames, d.iter) ELSE NoShow
         /\ mark' = IF d.ret THEN [NoMark EXCEPT !.kind = "beg", !.run = 0] ELSE NoMark
  /\ op' = "goToBeginning"
  /\ UNCHANGED file
  /\ arg' = NoArg
  /\ ret' = FALSE /\ ub' = {}
  /\ UNCHANGED <<frames, crashed>>

goToBeginning ==
  /\ ~crashed
  /\ LET d == defined(frames, begin(frames), 0)
     IN  /\ iter' = d.iter
         /\ currFrameNum' = d.num
         /\ shown' = IF d.ret THEN Show(frames, d.iter) ELSE NoShow
         /\ mark' = IF d.ret THEN [NoMark EXCEPT !.kind = "beg", !.run = 0] ELSE NoMark
  /\ op' = "goToBeginning"
  /\ UNCHANGED file
  /\ arg' = NoArg
  /\ ret' = FALSE /\ ub' = {}
  /\ UNCHANGED <<frames, crashed>>

\* faulty successor choices: always the next node, always the previous node
deleteSuccessor_alwaysNext(fs, it) == IterNext(fs, it)

deleteSuccessor_alwaysPrev(fs, it) == IterPrev(fs, it)

\* the iterator deleteCurrentFrame keeps: temp++ at the first node, else temp--
deleteSuccessor(fs, it) ==
  IF it = begin(fs) THEN IterNext(fs, it) ELSE IterPrev(fs, it)

deleteCurrentFrame ==
  /\ ~crashed
  /\ LET d == defined(frames, iter, currFrameNum)
     IN  IF d.ret
         THEN LET temp == deleteSuccessor(frames, d.iter)
                  fs   == erase(frames, d.iter)
                  it1  == afterErase(temp, d.iter)
              IN  /\ frames' = fs
                  /\ iter' = it1
                  /\ currFrameNum' = d.num
                  /\ shown' = Show(fs, it1)
                  /\ ub' = ShowUB(fs, it1)
         ELSE /\ frames' = frames
              /\ iter' = d.iter
              /\ currFrameNum' = d.num
              /\ shown' = NoShow
              /\ ub' = {}
  /\ op' = "deleteCurrentFrame"
  /\ UNCHANGED file
  /\ arg' = NoArg
  /\ ret' = FALSE /\ mark' = NoMark
  /\ MayCrash

\* Frame::interpolate(prev, first, second, after, alpha), left uninterpreted
FrameInterpolate(p, f, s, a, alpha) == <<"interp", p, f, s, a, alpha>>

\* faulty walk: the last iter-- is missing, the cursor ends one ahead
interpolateWalk_oneBack(fs, it) ==
  LET i1 == IterPrev(fs, it)
      i2 == IterNext(fs, i1)
      i3 == IterNext(fs, i2)
      i4 == IterNext(fs, i3)
      i5 == IterPrev(fs, i4)
  IN  [pos |-> <<i1, i2, i3, i4, i5, i5>>,
       ub  |-> <<DecUB(fs, it) \cup ShowUB(fs, i1),
                 IncUB(fs, i1) \cup ShowUB(fs, i2),
                 IncUB(fs, i2) \cup ShowUB(fs, i3),
                 IncUB(fs, i3) \cup ShowUB(fs, i4),
                 DecUB(fs, i4),
                 {}>>,
       prevFrame   |-> Deref(fs, i1),
       firstFrame  |-> Deref(fs, i2),
       secondFrame |-> Deref(fs, i3),
       afterFrame  |-> Deref(fs, i4)]

\* the iterator walk of interpolate(): the six positions iter passes through
\* (iter--, iter++, iter++, iter++, iter--, iter--) and, for each step, the
\* undefined behaviour of the move and of the read made at that position
interpolateWalk(fs, it) ==
  LET i1 == IterPrev(fs, it)
      i2 == IterNext(fs, i1)
      i3 == IterNext(fs, i2)
      i4 == IterNext(fs, i3)
      i5 == IterPrev(fs, i4)
      i6 == IterPrev(fs, i5)
  IN  [pos |-> <<i1, i2, i3, i4, i5, i6>>,
       ub  |-> <<DecUB(fs, it) \cup ShowUB(fs, i1),
                 IncUB(fs, i1) \cup ShowUB(fs, i2),
                 IncUB(fs, i2) \cup ShowUB(fs, i3),
                 IncUB(fs, i3) \cup ShowUB(fs, i4),
                 DecUB(fs, i4),
                 DecUB(fs, i5)>>,
       prevFrame   |-> Deref(fs, i1),
       firstFrame  |-> Deref(fs, i2),
       secondFrame |-> Deref(fs, i3),
       afterFrame  |-> Deref(fs, i4)]

\* interpolate(alpha), called by a caller that has seen canAnimate() true
interpolate ==
  /\ ~crashed
  /\ canAnimate(frames, iter, currFrameNum)
  /\ \E alpha \in Alphas :
       LET w == interpolateWalk(frames, iter)
           faults == {k \in 1..6 : w.ub[k] # {}}
       IN  /\ arg' = <<"alpha", alpha>>
           /\ ub' = UNION {w.ub[k] : k \in 1..6}
           /\ MayCrash
           /\ IF crashed'
              THEN LET k == CHOOSE j \in faults : \A m \in faults : j <= m
                   IN  /\ iter' = w.pos[k]
                       /\ shown' = NoShow
              ELSE /\ iter' = w.pos[6]
                   /\ shown' = FrameInterpolate(w.prevFrame, w.firstFrame,
                                                w.secondFrame, w.afterFrame, alpha)
  /\ op' = "interpolate"
  /\ UNCHANGED file
  /\ ret' = FALSE /\ mark' = NoMark
  /\ UNCHANGED <<frames, currFrameNum>>

\* the public advanceIter(), called directly
advanceIter ==
  /\ ~crashed
  /\ currFrameNum < MaxOrdinal
  /\ LET a == advanceIterStep(frames, iter, currFrameNum)
     IN  /\ iter' = a.iter
         /\ currFrameNum' = a.num
         /\ ub' = a.ub
  /\ op' = "advanceIter"
  /\ UNCHANGED file
  /\ arg' = NoArg
  /\ shown' = NoShow /\ ret' = FALSE /\ mark' = NoMark
  /\ UNCHANGED frames
  /\ MayCrash

\* the public regressIter(), called directly
regressIter ==
  /\ ~crashed
  /\ currFrameNum > 0 - MaxBelow
  /\ LET r == regressIterStep(frames, iter, currFrameNum)
     IN  /\ iter' = r.iter
         /\ currFrameNum' = r.num
         /\ ub' = r.ub
  /\ op' = "regressIter"
  /\ UNCHANGED file
  /\ arg' = NoArg
  /\ shown' = NoShow /\ ret' = FALSE /\ mark' = NoMark
  /\ UNCHANGED frames
  /\ MayCrash

Next ==
  \/ getNumberOfKeyframes
  \/ CanAnimate
  \/ showCurrentFrameInScene
  \/ createNewFrameFromSceneAfterCurrentFrame
  \/ replaceCurrentFrameFromScene
  \/ advanceCurrentFrame
  \/ regressCurrentFrame
  \/ goToBeginning
  \/ deleteCurrentFrame
  \/ interpolate

Spec == Init /\ [][Next]_vars

\* ------------------------------------------------------- persistence
\* Frame::serialize(): the text of one frame, as a sequence of characters
serialize(f) == <<"frame:", f>>

\* Frame::deserialize(rootNode, line)
deserialize(line) == line[2]

\* serialized += it->serialize() + "\n", over the frames in list order
RECURSIVE serializeAll(_)
serializeAll(fs) ==
  IF fs = <<>> THEN <<>>
  ELSE serialize(Head(fs)) \o <<NL>> \o serializeAll(Tail(fs))

\* while (getline(file, line)) serialized.push_back(line): the text cut at
\* each newline; a last piece without a newline is a line when not empty
RECURSIVE getlines(_, _)
getlines(text, line) ==
  IF text = <<>> THEN (IF line = <<>> THEN <<>> ELSE <<line>>)
  ELSE IF Head(text) = NL THEN <<line>> \o getlines(Tail(text), <<>>)
  ELSE getlines(Tail(text), Append(line, Head(text)))

\* the cursor can be used: it refers to this store's list, or the list is
\* empty and defined() resets it before any use
Usable == iter # Foreign \/ size(frames) = 0

writeScriptToFile ==
  /\ ~crashed
  /\ file' = [present |-> TRUE, text |-> serializeAll(frames)]
  /\ op' = "writeScriptToFile"
  /\ arg' = NoArg
  /\ shown' = NoShow /\ ret' = FALSE /\ ub' = {} /\ mark' = NoMark
  /\ UNCHANGED <<frames, iter, currFrameNum, crashed>>

\* script = Script::loadScriptFromFile(filename, rootNode).  The Script is
\* built with iter = frames.begin() and handed over by value: where the copy
\* is elided iter is the begin() of the store's own list, where the object is
\* copied (Script has no copy constructor of its own) iter still refers to
\* the list of the copied-from object.
loadScriptFromFile ==
  /\ ~crashed
  /\ frames' = IF file.present
               THEN LET serialized == getlines(file.text, <<>>)
                    IN  [i \in 1..Len(serialized) |-> deserialize(serialized[i])]
               ELSE <<>>
  /\ iter' \in {begin(frames'), Foreign}
  /\ currFrameNum' = 0
  /\ op' = "loadScriptFromFile"
  /\ arg' = NoArg
  /\ shown' = NoShow /\ ret' = FALSE /\ ub' = {} /\ mark' = NoMark
  /\ UNCHANGED <<file, crashed>>

\* any operation but goToBeginning on a non-empty store whose iterator is
\* Foreign goes through a destroyed list node: it aborts, or carries on
useForeignIter ==
  /\ ~crashed
  /\ ~Usable
  /\ ub' = {"dangling_iter"}
  /\ crashed' \in BOOLEAN
  /\ op' = "useForeignIter"
  /\ arg' = NoArg
  /\ shown' = NoShow /\ ret' = FALSE /\ mark' = NoMark
  /\ UNCHANGED <<frames, iter, currFrameNum, file>>

\* the store with its file: edited, saved and loaded
NextFile ==
  \/ Usable /\ Next
  \/ ~Usable /\ goToBeginning
  \/ useForeignIter
  \/ writeScriptToFile
  \/ loadScriptFromFile

SpecFile == Init /\ [][NextFile]_vars

\* ------------------------------------------------------ Interpolator
\* One coordinate of a pose is an integer in Poses; alpha is k / AlphaDen.
Poses == 0..MaxPose

\* results are carried multiplied by PoseScale so that they stay integers
PoseScale == 6 * AlphaDen * AlphaDen * AlphaDen

\* faulty curve: the segment runs from prev to second instead of first to second
CatmullRom_fromPrev(a, b, c, d, k) ==
  LET D == AlphaDen
  IN    (D - k) * (D - k) * (D - k) * 6 * a
      + 3 * (D - k) * (D - k) * k * (6 * a + c - a)
      + 3 * (D - k) * k * k * (6 * c - d + b)
      + k * k * k * 6 * c

\* Frame::interpolate(prev, first, second, after, alpha) on one coordinate:
\* the Catmull-Rom segment from first (b) to second (c), as the cubic Bezier
\* curve with control points b, b + (c - a)/6, c - (d - b)/6, c, evaluated
\* at alpha = k / AlphaDen and multiplied by PoseScale
CatmullRom(a, b, c, d, k) ==
  LET D == AlphaDen
  IN    (D - k) * (D - k) * (D - k) * 6 * b
      + 3 * (D - k) * (D - k) * k * (6 * b + c - a)
      + 3 * (D - k) * k * k * (6 * c - d + b)
      + k * k * k * 6 * c

\* four frames handed to Frame::interpolate
InitInterp ==
  /\ frames \in [1..4 -> Poses]
  /\ iter = 2
  /\ currFrameNum = 1
  /\ shown = NoShow
  /\ op = "Script"
  /\ arg = NoArg
  /\ ret = FALSE
  /\ ub = {}
  /\ crashed = FALSE
  /\ file = NoFile
  /\ mark = NoMark

\* Frame::interpolate(prevFrame, firstFrame, secondFrame, afterFrame, alpha)
FrameInterpolateStep ==
  /\ \E k \in Alphas :
       /\ arg' = <<"alpha", k>>
       /\ shown' = <<"pose", CatmullRom(frames[1], frames[2], frames[3],
                                        frames[4], k)>>
  /\ op' = "Frame::interpolate"
  /\ UNCHANGED <<frames, iter, currFrameNum, ret, ub, crashed, file, mark>>

NextInterp == FrameInterpolateStep

SpecInterp == InitInterp /\ [][NextInterp]_vars

\* ---------------------------------------------------------- playback
\* The playback loop  while (canAnimate()) advanceCurrentFrame();  op is the
\* loop's position: "play:canAnimate" after the test, "play:advance" after
\* the body, "play:done" once the test has failed.
InLoop == op \in {"play:canAnimate", "play:advance"}

\* the loop test: canAnimate()
playCanAnimate ==
  /\ ~crashed
  /\ op # "play:canAnimate"
  /\ LET d == defined(frames, iter, currFrameNum)
     IN  /\ iter' = d.iter
         /\ currFrameNum' = d.num
         /\ ret' = canAnimate(frames, iter, currFrameNum)
  /\ op' = "play:canAnimate"
  /\ arg' = NoArg
  /\ shown' = NoShow /\ ub' = {} /\ mark' = NoMark
  /\ UNCHANGED <<frames, crashed, file>>

\* the loop body: advanceCurrentFrame()
playAdvance ==
  /\ ~crashed
  /\ op = "play:canAnimate" /\ ret
  /\ LET d == defined(frames, iter, currFrameNum)
     IN  IF d.ret /\ canAdvanceCmp(frames, d.num)
         THEN LET a == advanceIterStep(frames, d.iter, d.num)
              IN  /\ iter' = a.iter
                  /\ currFrameNum' = a.num
                  /\ shown' = Show(frames, a.iter)
                  /\ ub' = a.ub \cup ShowUB(frames, a.iter)
         ELSE /\ iter' = d.iter
              /\ currFrameNum' = d.num
              /\ shown' = NoShow
              /\ ub' = {}
  /\ op' = "play:advance"
  /\ arg' = NoArg
  /\ ret' = FALSE /\ mark' = NoMark
  /\ UNCHANGED <<frames, file>>
  /\ MayCrash

\* the loop is left when the test fails
playExit ==
  /\ ~crashed
  /\ op = "play:canAnimate" /\ ~ret
  /\ op' = "play:done"
  /\ UNCHANGED <<frames, iter, currFrameNum, shown, arg, ret, ub, crashed, file, mark>>

\* the store edited, then played back; the loop runs without interruption
NextPlay ==
  \/ ~InLoop /\ Next
  \/ playCanAnimate
  \/ playAdvance
  \/ playExit

\* once in the loop the single control thread keeps executing it
SpecPlay ==
  /\ Init
  /\ [][NextPlay]_vars
  /\ WF_vars(playCanAnimate)
  /\ WF_vars(playAdvance)
  /\ WF_vars(playExit)

\* the same store driven also through the raw cursor steps
NextRaw ==
  \/ Next
  \/ advanceIter
  \/ regressIter

SpecRaw == Init /\ [][NextRaw]_vars
\* ------------------------------------------------------------ helpers
\* the cursor refers to a stored frame
Live == size(frames) > 0 /\ iter \in 1..size(frames)

\* s without its k-th element
RemoveAt(s, k) == [i \in 1..(Len(s) - 1) |-> IF i < k THEN s[i] ELSE s[i + 1]]

\* ------------------------------------------------------------- claims

\* C1: whenever the sequence is non-empty, currFrameNum is the 0-based
\* distance from the first element to the element the cursor refers to.
C1_OrdinalInvariant ==
  (~crashed /\ Live) => currFrameNum = iter - begin(frames)

\* C2: isDefined() is false exactly when count() == 0; whenever the sequence
\* is non-empty the cursor refers to a stored element, never to end().
C2_CursorLive ==
  ~crashed =>
    /\ defined(frames, iter, currFrameNum).ret <=> (size(frames) # 0)
    /\ size(frames) > 0 => Live

C2_Witness ==
  /\ op = "deleteCurrentFrame"
  /\ ~crashed
  /\ size(frames) >= 2
  /\ iter = size(frames)
  /\ shown = Show(frames, iter)

\* C3: canAnimate() is true exactly when count() >= 3 and
\* currFrameNum <= count() - 3.
C3_CanAnimateIff ==
  ~crashed =>
    (canAnimate(frames, iter, currFrameNum)
       <=> (size(frames) >= 3 /\ currFrameNum <= size(frames) - 3))

\* C4: an interpolate() entered with canAnimate() true reads four stored
\* frames and makes no iterator step before the first element or at/past
\* end().
C4_InterpolateInRange ==
  op = "interpolate" => ub = {}

\* C5: an operation displays the cursor's frame only when the cursor refers
\* to a stored element after the operation's mutation; end() is never
\* dereferenced, and deleting the only frame displays nothing.
C5_DisplayIsLive ==
  /\ "deref_end" \notin ub
  /\ (shown # NoShow /\ op # "interpolate") => (Live /\ shown = Show(frames, iter))
  /\ (op = "deleteCurrentFrame" /\ size(frames) = 0) => shown = NoShow

\* C6: deleteCurrentFrame in a defined state of length n >= 2 with the cursor
\* at position k removes exactly the k-th element and leaves the cursor on
\* the former predecessor, or on the former second element when k was first.
C6_DeleteSuccessor ==
  [][(op' = "deleteCurrentFrame" /\ defined(frames, iter, currFrameNum).ret
        /\ size(frames) >= 2)
     => /\ frames' = RemoveAt(frames, iter)
        /\ iter' = (IF iter > 1 THEN iter - 1 ELSE 1)
        /\ frames'[iter'] = (IF iter > 1 THEN frames[iter - 1] ELSE frames[2])
        /\ shown' = <<"frame", frames'[iter']>>
        /\ ~crashed']_vars

C6_Witness ==
  /\ op = "deleteCurrentFrame"
  /\ ~crashed
  /\ size(frames) >= 3
  /\ iter = 2
  /\ shown = Show(frames, iter)

\* C7: insert in a defined state with the cursor at position k puts the
\* captured frame at position k+1, keeps every other element in order, moves
\* the cursor onto it and adds one to the ordinal; in an undefined state it
\* leaves exactly the captured frame, cursor on it, ordinal 0, defined.
C7_InsertPost ==
  [][(op' = "createNewFrameFromSceneAfterCurrentFrame")
     => IF defined(frames, iter, currFrameNum).ret
        THEN /\ size(frames') = size(frames) + 1
             /\ frames'[iter + 1] = arg'[2]
             /\ RemoveAt(frames', iter + 1) = frames
             /\ iter' = iter + 1
             /\ currFrameNum' = currFrameNum + 1
        ELSE /\ frames' = <<arg'[2]>>
             /\ iter' = 1
             /\ currFrameNum' = 0
             /\ defined(frames', iter', currFrameNum').ret]_vars

C7_Witness ==
  /\ op = "createNewFrameFromSceneAfterCurrentFrame"
  /\ size(frames) >= 3
  /\ iter = 2
  /\ frames[iter] = arg[2]
  /\ frames[1] # arg[2]

\* C8: deleteCurrentFrame on a store of one frame leaves count() == 0, and
\* the next call that runs isDefined() finds it false and leaves the cursor
\* in the canonical undefined state (ordinal 0) whatever the ordinal was.
DefinedOnlyOps ==
  {"canAnimate", "showCurrentFrameInScene", "advanceCurrentFrame",
   "regressCurrentFrame", "deleteCurrentFrame"}

C8_DeleteOnlyFrame ==
  [][/\ (op' = "deleteCurrentFrame" /\ size(frames) = 1) => size(frames') = 0
     /\ (op' \in DefinedOnlyOps /\ size(frames) = 0)
          => /\ size(frames') = 0
             /\ iter' = begin(frames') /\ iter' = end(frames')
             /\ currFrameNum' = 0
             /\ ~ret'
             /\ shown' = NoShow
             /\ ~defined(frames', iter', currFrameNum').ret]_vars

C8_Witness ==
  /\ op = "deleteCurrentFrame"
  /\ ~crashed
  /\ size(frames) = 0
  /\ currFrameNum > 0
  /\ "deref_end" \in ub

\* C9: regressIter() with the cursor on the first element changes neither
\* the cursor nor currFrameNum.
C9_RegressIterNoopAtFirst ==
  [][(op' = "regressIter" /\ Live /\ iter = begin(frames))
     => (iter' = iter /\ currFrameNum' = currFrameNum)]_vars

\* C10: insert followed at once by regressCurrentFrame leaves the cursor on
\* the element it was on before the insert, with the ordinal it had then;
\* the inserted frame stays in the sequence, right after the cursor.
C10_InsertRegress ==
  mark.kind = "insreg"
    => /\ iter = mark.iter
       /\ currFrameNum = mark.num
       /\ mark.new = iter + 1
       /\ mark.new <= size(frames)
       /\ frames[iter] = mark.frame
       /\ shown = Show(frames, iter)

C10_Witness ==
  /\ mark.kind = "insreg"
  /\ op = "regressCurrentFrame"
  /\ iter >= 2
  /\ currFrameNum > iter - 1

\* C11: when advanceCurrentFrame moves the cursor, a regressCurrentFrame
\* right after it puts the cursor back on the same element with the same
\* currFrameNum, and the sequence is unchanged.
C11_AdvanceRegress ==
  mark.kind = "advreg"
    => /\ iter = mark.iter
       /\ currFrameNum = mark.num
       /\ frames = mark.seq
       /\ Live
       /\ shown = Show(frames, iter)

C11_Witness ==
  /\ mark.kind = "advreg"
  /\ op = "regressCurrentFrame"
  /\ ~crashed
  /\ size(frames) >= 3
  /\ iter = 2

\* C12: regressCurrentFrame on the first element and advanceCurrentFrame on
\* the last element change nothing; on an empty store showCurrent, advance,
\* regress, goToBeginning and delete leave the sequence empty, the store
\* undefined, and dereference nothing.
EmptySafeOps ==
  {"showCurrentFrameInScene", "advanceCurrentFrame", "regressCurrentFrame",
   "goToBeginning", "deleteCurrentFrame"}

C12_BoundaryNoops ==
  [][/\ (op' = "regressCurrentFrame" /\ Live /\ iter = begin(frames))
          => (UNCHANGED <<frames, iter, currFrameNum>> /\ shown' = NoShow /\ ub' = {})
     /\ (op' = "advanceCurrentFrame" /\ Live /\ iter = size(frames))
          => (UNCHANGED <<frames, iter, currFrameNum>> /\ shown' = NoShow /\ ub' = {})
     /\ (op' \in EmptySafeOps /\ size(frames) = 0)
          => /\ size(frames') = 0
             /\ ~defined(frames', iter', currFrameNum').ret
             /\ shown' = NoShow
             /\ ub' = {}
             /\ ~crashed']_vars

C12_Witness ==
  /\ op = "advanceCurrentFrame"
  /\ shown = NoShow
  /\ size(frames) >= 2
  /\ iter = size(frames)
  /\ currFrameNum = iter - 1

\* C13: replaceCurrentFromScene in a defined state overwrites the frame at
\* the cursor with the captured one and changes nothing else (length, other
\* frames, cursor, ordinal); in an undefined state it acts as insert does:
\* one frame, cursor on it, ordinal 0.
C13_ReplacePost ==
  [][(op' = "replaceCurrentFrameFromScene")
     => IF defined(frames, iter, currFrameNum).ret
        THEN /\ size(frames') = size(frames)
             /\ \A i \in 1..size(frames) : i # iter => frames'[i] = frames[i]
             /\ frames'[iter] = arg'[2]
             /\ iter' = iter
             /\ currFrameNum' = currFrameNum
             /\ shown' = <<"frame", arg'[2]>>
        ELSE /\ frames' = <<arg'[2]>>
             /\ iter' = 1
             /\ currFrameNum' = 0
             /\ defined(frames', iter', currFrameNum').ret
             /\ shown' = <<"frame", arg'[2]>>]_vars

C13_Witness ==
  /\ op = "replaceCurrentFrameFromScene"
  /\ size(frames) >= 3
  /\ iter = 2
  /\ currFrameNum >= 1
  /\ frames[iter] = arg[2]
  /\ frames[1] # arg[2]
  /\ frames[3] # arg[2]

\* the cursor has a frame before it and two frames after it
Context(fs, it) == it >= 2 /\ it + 2 <= size(fs)

\* C14: where the four context frames exist, interpolate walks only over
\* stored frames and ends on the element it started from; the call leaves
\* the sequence, the cursor and currFrameNum as they were and displays the
\* interpolation of the frames at cursor-1, cursor, cursor+1, cursor+2, in
\* that order.
C14_InterpolateFrame ==
  /\ [](( ~crashed /\ Context(frames, iter))
          => LET w == interpolateWalk(frames, iter)
             IN  /\ w.pos[6] = iter
                 /\ \A k \in 1..6 : w.ub[k] = {}
                 /\ <<w.prevFrame, w.firstFrame, w.secondFrame, w.afterFrame>>
                      = <<frames[iter - 1], frames[iter], frames[iter + 1],
                          frames[iter + 2]>>)
  /\ [][(op' = "interpolate" /\ Context(frames, iter))
          => /\ UNCHANGED <<frames, iter, currFrameNum>>
             /\ ~crashed'
             /\ shown' = FrameInterpolate(frames[iter - 1], frames[iter],
                                          frames[iter + 1], frames[iter + 2],
                                          arg'[2])]_vars

C14_Witness ==
  /\ op = "interpolate"
  /\ ~crashed
  /\ Context(frames, iter)
  /\ shown[1] = "interp"
  /\ frames[iter - 1] # frames[iter]

\* C15: goToBeginning leaves the sequence unchanged; on a non-empty sequence
\* the cursor is then on the first element with currFrameNum 0, and k
\* successful advanceCurrentFrame calls from there reach position k; on an
\* empty sequence the store stays undefined.
C15_GoToBeginning ==
  [][/\ (op' = "goToBeginning")
          => /\ frames' = frames
             /\ IF size(frames) > 0
                THEN /\ iter' = begin(frames')
                     /\ currFrameNum' = 0
                     /\ defined(frames', iter', currFrameNum').ret
                     /\ shown' = Show(frames', begin(frames'))
                ELSE /\ ~defined(frames', iter', currFrameNum').ret
                     /\ shown' = NoShow
     /\ (mark'.run >= 0)
          => /\ iter' = begin(frames') + mark'.run
             /\ currFrameNum' = mark'.run
             /\ iter' <= size(frames')
     /\ (op' = "advanceCurrentFrame" /\ mark.run >= 0 /\ mark.run < size(frames) - 1)
          => mark'.run = mark.run + 1]_vars

C15_Witness ==
  /\ op = "advanceCurrentFrame"
  /\ size(frames) >= 3
  /\ mark.run = size(frames) - 1
  /\ iter = size(frames)

\* C16: writeScriptToFile followed by loadScriptFromFile of the same file
\* gives as many frames as were saved, with the same serialized forms in the
\* same order, the cursor on the first element of the loaded store's own
\* sequence and ordinal 0; a missing file gives an empty, undefined store.
C16_RoundTrip ==
  [][/\ (op' = "writeScriptToFile")
          => /\ file'.present
             /\ getlines(file'.text, <<>>)
                  = [i \in 1..size(frames) |-> serialize(frames[i])]
     /\ (op' = "loadScriptFromFile")
          => IF file.present
             THEN LET serialized == getlines(file.text, <<>>)
                  IN  /\ size(frames') = Len(serialized)
                      /\ \A i \in 1..Len(serialized) :
                           serialize(frames'[i]) = serialized[i]
                      /\ size(frames') > 0
                           => /\ iter' = begin(frames')
                              /\ iter' # Foreign
                              /\ currFrameNum' = 0
             ELSE /\ size(frames') = 0
                  /\ ~defined(frames', iter', currFrameNum').ret]_vars

\* C17: Frame::interpolate(a, b, c, d, 0) is the pose b and
\* Frame::interpolate(a, b, c, d, 1) is the pose c, and the call leaves its
\* four input frames as they were.
C17_Endpoints ==
  [][(op' = "Frame::interpolate")
     => /\ frames' = frames
        /\ (arg'[2] = 0) => shown' = <<"pose", PoseScale * frames[2]>>
        /\ (arg'[2] = AlphaDen) => shown' = <<"pose", PoseScale * frames[3]>>]_vars

C17_Witness ==
  /\ op = "Frame::interpolate"
  /\ arg = <<"alpha", AlphaDen>>
  /\ frames[1] # frames[2]
  /\ frames[2] # frames[3]
  /\ frames[3] # frames[4]
  /\ shown = <<"pose", PoseScale * frames[3]>>

\* C18: advanceCurrentFrame moves the cursor to the next element whenever
\* the store is defined and the cursor is not on the last element; it is a
\* no-op only when the store is undefined or the cursor is on the last one.
C18_AdvanceUnlessLast ==
  [][(op' = "advanceCurrentFrame")
     => IF defined(frames, iter, currFrameNum).ret /\ iter # size(frames)
        THEN iter' = iter + 1 /\ shown' = Show(frames, iter + 1)
        ELSE iter' = defined(frames, iter, currFrameNum).iter /\ shown' = NoShow]_vars

\* C19: the loop  while canAnimate() do advanceCurrentFrame()  terminates:
\* every pass through the body moves the cursor one element on, and the
\* loop is left with canAnimate() false.
C19_PlaybackTerminates ==
  /\ (op = "play:canAnimate") ~> (op = "play:done")
  /\ [][(op' = "play:advance") => (iter' = iter + 1 /\ currFrameNum' = currFrameNum + 1)]_vars
  /\ [](op = "play:done" => ~canAnimate(frames, iter, currFrameNum))

\* C20: insert adds exactly one frame; deleteCurrentFrame removes exactly
\* one when the store is defined and none otherwise; count, canAnimate,
\* showCurrent, advanceCurrentFrame, regressCurrentFrame, goToBeginning and
\* interpolate leave the stored frames exactly as they were.
ReadOnlyOps ==
  {"getNumberOfKeyframes", "canAnimate", "showCurrentFrameInScene",
   "advanceCurrentFrame", "regressCurrentFrame", "goToBeginning", "interpolate"}

C20_LengthChanges ==
  [][/\ (op' = "createNewFrameFromSceneAfterCurrentFrame")
          => size(frames') = size(frames) + 1
     /\ (op' = "deleteCurrentFrame")
          => IF defined(frames, iter, currFrameNum).ret
             THEN size(frames') = size(frames) - 1
             ELSE frames' = frames
     /\ (op' \in ReadOnlyOps) => frames' = frames]_vars

C20_Witness ==
  /\ op = "deleteCurrentFrame"
  /\ ~crashed
  /\ size(frames) = 2
  /\ iter = 1
  /\ currFrameNum = 1
  /\ shown = Show(frames, iter)
====
